---- MODULE Spec2Model ----
(***************************************************************************)
(* Attribute-based access control stack of                                 *)
(* lib/test-attribute-access-amplify-infrastructure-stack.ts:              *)
(* a Cognito user pool with the custom attribute `client`, an identity     *)
(* pool that exchanges a user-pool token for role credentials, two roles   *)
(* with their trust policies, and the managed S3 policy whose read/write   *)
(* statement is scoped by ${aws:PrincipalTag/client}.                      *)
(***************************************************************************)
EXTENDS Naturals, Sequences, FiniteSets, TLC

VARIABLES users, tokens, creds, mapping, clientMutable, submitted, lastErr, req, decision

vars == <<users, tokens, creds, mapping, clientMutable, submitted, lastErr, req, decision>>

(***************************************************************************)
(* Bounds of the model.                                                    *)
(***************************************************************************)
MaxCreds == 2
LenSlack == 2

(***************************************************************************)
(* Strings.                                                                *)
(***************************************************************************)
RECURSIVE Rep(_, _)
Rep(c, n) == IF n = 0 THEN "" ELSE c \o Rep(c, n - 1)

HasPrefix(s, p) == Len(p) <= Len(s) /\ SubSeq(s, 1, Len(p)) = p

Drop(s, n) == SubSeq(s, n + 1, Len(s))

(***************************************************************************)
(* The user pool: customAttributes.client.                                 *)
(***************************************************************************)
minLen == 3
maxLen == 60

validate_NoUpperBound(v) == Len(v) >= minLen

validate(v) == Len(v) >= minLen /\ Len(v) <= maxLen

store(v) == v

UserIds == {"u1", "u2"}

NoUser == [exists |-> FALSE, client |-> ""]

identityPoolRef == "identityPool"

bucketArn == "bucket"

(***************************************************************************)
(* The policy engine the documents are written for: wildcards, policy      *)
(* variables, and the evaluation of identity and trust statements.         *)
(***************************************************************************)
RECURSIVE Match(_, _)
Match(p, s) ==
    IF Len(p) = 0 THEN Len(s) = 0
    ELSE IF SubSeq(p, 1, 1) = "*"
         THEN \E k \in 0..Len(s) : Match(Tail(p), Drop(s, k))
         ELSE /\ Len(s) > 0
              /\ (SubSeq(p, 1, 1) = "?" \/ SubSeq(p, 1, 1) = SubSeq(s, 1, 1))
              /\ Match(Tail(p), Tail(s))

IndexOf(s, ch) ==
    IF \E i \in 1..Len(s) : SubSeq(s, i, i) = ch
    THEN CHOOSE i \in 1..Len(s) :
             /\ SubSeq(s, i, i) = ch
             /\ \A j \in 1..(i - 1) : SubSeq(s, j, j) # ch
    ELSE 0

\* The keys of the ${...} substitution points of a pattern, one entry per point.
RECURSIVE VariablePoints(_)
VariablePoints(p) ==
    IF Len(p) = 0 THEN << >>
    ELSE IF HasPrefix(p, "${") /\ IndexOf(p, "}") > 0
         THEN <<SubSeq(p, 3, IndexOf(p, "}") - 1)>>
                  \o VariablePoints(Drop(p, IndexOf(p, "}")))
         ELSE VariablePoints(Tail(p))

ContextHas(ctx, key) == \E e \in ctx : e[1] = key

ContextValue(ctx, key) == (CHOOSE e \in ctx : e[1] = key)[2]

Resolvable(p, ctx) ==
    \A i \in DOMAIN VariablePoints(p) : ContextHas(ctx, VariablePoints(p)[i])

RECURSIVE Substitute(_, _)
Substitute(p, ctx) ==
    IF Len(p) = 0 THEN ""
    ELSE IF HasPrefix(p, "${") /\ IndexOf(p, "}") > 0
         THEN ContextValue(ctx, SubSeq(p, 3, IndexOf(p, "}") - 1))
                  \o Substitute(Drop(p, IndexOf(p, "}")), ctx)
         ELSE SubSeq(p, 1, 1) \o Substitute(Tail(p), ctx)

\* The request context of a session: its tags as aws:PrincipalTag/<key>.
PrincipalContext(tags) == {<<"aws:PrincipalTag/" \o t[1], t[2]>> : t \in tags}

StatementAllows(st, action, resource, ctx) ==
    /\ st.effect = "Allow"
    /\ \E a \in st.actions : Match(a, action)
    /\ \E r \in st.resources :
           Resolvable(r, ctx) /\ Match(Substitute(r, ctx), resource)

PolicyAllows(policy, action, resource, ctx) ==
    \E i \in DOMAIN policy : StatementAllows(policy[i], action, resource, ctx)

(***************************************************************************)
(* createRoles: the managed policy, the two roles, the role attachment.    *)
(***************************************************************************)
s3AccessPolicy_Unscoped ==
    << [effect |-> "Allow",
        actions |-> {"s3:ListBucket"},
        resources |-> {bucketArn}],
       [effect |-> "Allow",
        actions |-> {"s3:GetObject*", "s3:PutObject*"},
        resources |-> {bucketArn \o "/*"}] >>

s3AccessPolicy ==
    << [effect |-> "Allow",
        actions |-> {"s3:ListBucket"},
        resources |-> {bucketArn}],
       [effect |-> "Allow",
        actions |-> {"s3:GetObject*", "s3:PutObject*"},
        resources |-> {bucketArn \o "/${aws:PrincipalTag/client}/*"}] >>

audKey == "cognito-identity.amazonaws.com:aud"

amrKey == "cognito-identity.amazonaws.com:amr"

authenticatedRole ==
    [assumeRolePolicyDocument |->
        << [Effect |-> "Allow",
            Action |-> {"sts:AssumeRoleWithWebIdentity", "sts:TagSession"},
            Condition |->
                {[op |-> "StringEquals", key |-> audKey, value |-> identityPoolRef],
                 [op |-> "ForAnyValue:StringLike", key |-> amrKey,
                  value |-> "authenticated"]},
            Principal |-> [Federated |-> "cognito-identity.amazonaws.com"]] >>,
     managedPolicyArns |-> {"s3ManagedPolicy"}]

unauthenticatedRole_NoAudience ==
    [assumeRolePolicyDocument |->
        << [Effect |-> "Allow",
            Action |-> {"sts:AssumeRoleWithWebIdentity", "sts:TagSession"},
            Condition |->
                {[op |-> "ForAnyValue:StringLike", key |-> amrKey,
                  value |-> "unauthenticated"]},
            Principal |-> [Federated |-> "cognito-identity.amazonaws.com"]] >>,
     managedPolicyArns |-> {}]

unauthenticatedRole_WithS3 ==
    [assumeRolePolicyDocument |->
        << [Effect |-> "Allow",
            Action |-> {"sts:AssumeRoleWithWebIdentity", "sts:TagSession"},
            Condition |->
                {[op |-> "StringEquals", key |-> audKey, value |-> identityPoolRef],
                 [op |-> "ForAnyValue:StringLike", key |-> amrKey,
                  value |-> "unauthenticated"]},
            Principal |-> [Federated |-> "cognito-identity.amazonaws.com"]] >>,
     managedPolicyArns |-> {"s3ManagedPolicy"}]

unauthenticatedRole ==
    [assumeRolePolicyDocument |->
        << [Effect |-> "Allow",
            Action |-> {"sts:AssumeRoleWithWebIdentity", "sts:TagSession"},
            Condition |->
                {[op |-> "StringEquals", key |-> audKey, value |-> identityPoolRef],
                 [op |-> "ForAnyValue:StringLike", key |-> amrKey,
                  value |-> "unauthenticated"]},
            Principal |-> [Federated |-> "cognito-identity.amazonaws.com"]] >>,
     managedPolicyArns |-> {}]

RoleIds == {"authenticatedRole", "unauthenticatedRole"}

Role(id) == IF id = "authenticatedRole" THEN authenticatedRole ELSE unauthenticatedRole

ManagedPolicy(arn) == s3AccessPolicy

\* Whether a session of role `id` carrying `tags` may do `action` on `resource`.
RoleAllows(id, action, resource, tags) ==
    \E arn \in Role(id).managedPolicyArns :
        PolicyAllows(ManagedPolicy(arn), action, resource, PrincipalContext(tags))

\* A web-identity context: the audience and the amr values of the identity.
ContextValues(web, key) ==
    IF key = audKey THEN {web.aud} ELSE IF key = amrKey THEN web.amr ELSE {}

ConditionHolds(c, web) ==
    IF c.op = "StringEquals"
    THEN ContextValues(web, c.key) = {c.value}
    ELSE \E v \in ContextValues(web, c.key) : Match(c.value, v)

TrustAllows(id, stsAction, web) ==
    \E i \in DOMAIN Role(id).assumeRolePolicyDocument :
        LET st == Role(id).assumeRolePolicyDocument[i] IN
        /\ st.Effect = "Allow"
        /\ stsAction \in st.Action
        /\ st.Principal.Federated = web.provider
        /\ \A c \in st.Condition : ConditionHolds(c, web)

(***************************************************************************)
(* The identity pool: unauthenticated identities, the role attachment and  *)
(* the principal-tag mapping of its provider.                              *)
(***************************************************************************)
allowUnauthenticatedIdentities == FALSE

roleAttachment ==
    [roles |-> [authenticated |-> "authenticatedRole",
                unauthenticated |-> "unauthenticatedRole"],
     roleMappings |-> [type |-> "Token",
                       ambiguousRoleResolution |-> "AuthenticatedRole"]]

\* An exchange outcome: the authentication state and the role claims of the
\* token (cognito:roles, cognito:preferred_role; "" when the claim is absent).
selectRole_TokenPick(outcome) ==
    IF outcome.amr = "unauthenticated"
    THEN [ok |-> TRUE, role |-> roleAttachment.roles.unauthenticated, via |-> "default"]
    ELSE IF outcome.preferred # ""
    THEN [ok |-> TRUE, role |-> outcome.preferred, via |-> "token"]
    ELSE IF outcome.roles # {}
    THEN [ok |-> TRUE, role |-> CHOOSE r \in outcome.roles :
                                    \A q \in outcome.roles : Len(q) <= Len(r),
          via |-> "token"]
    ELSE [ok |-> TRUE, role |-> roleAttachment.roles.authenticated, via |-> "default"]

selectRole_Deny(outcome) ==
    IF outcome.amr = "unauthenticated"
    THEN [ok |-> TRUE, role |-> roleAttachment.roles.unauthenticated, via |-> "default"]
    ELSE IF outcome.preferred # ""
    THEN [ok |-> TRUE, role |-> outcome.preferred, via |-> "token"]
    ELSE [ok |-> FALSE, role |-> "", via |-> "deny"]

selectRole(outcome) ==
    IF outcome.amr = "unauthenticated"
    THEN [ok |-> TRUE, role |-> roleAttachment.roles.unauthenticated, via |-> "default"]
    ELSE IF outcome.preferred # ""
    THEN [ok |-> TRUE, role |-> outcome.preferred, via |-> "token"]
    ELSE IF Cardinality(outcome.roles) = 1
    THEN [ok |-> TRUE, role |-> CHOOSE r \in outcome.roles : TRUE, via |-> "token"]
    ELSE IF roleAttachment.roleMappings.ambiguousRoleResolution = "AuthenticatedRole"
    THEN [ok |-> TRUE, role |-> roleAttachment.roles.authenticated, via |-> "default"]
    ELSE [ok |-> FALSE, role |-> "", via |-> "deny"]

\* The session tags of an exchange: one per mapping entry <<tag key, claim>>
\* whose claim the token carries.
SessionTags(map, claims) ==
    {<<m[1], ContextValue(claims, m[2])>> : m \in {e \in map : ContextHas(claims, e[2])}}

WebIdentity(amr) ==
    [aud |-> identityPoolRef, amr |-> {amr},
     provider |-> "cognito-identity.amazonaws.com"]

\* The tags policy evaluation sees for a credential: those of its session.
PrincipalTags_Live(c) ==
    IF c.tags = {} \/ c.owner \notin UserIds THEN c.tags
    ELSE {<<"client", users[c.owner].client>>}

PrincipalTags(c) == c.tags

CredAllows(c, action, resource) ==
    RoleAllows(c.role, action, resource, PrincipalTags(c))

(***************************************************************************)
(* Inputs.                                                                 *)
(***************************************************************************)
ClientInputs == {"ab", "acme", "acme/x", "other"}

LengthInputs == {Rep("a", n) : n \in 0..(maxLen + LenSlack)}

ObjectKeys == {"file.txt"}

S3Actions == {"s3:ListBucket", "s3:GetObject", "s3:GetObjectVersion",
              "s3:PutObject", "s3:DeleteObject"}

DataActions == {"s3:GetObject", "s3:GetObjectVersion", "s3:PutObject"}

ObjectArn(v, k) == bucketArn \o "/" \o v \o "/" \o k

Resources ==
    {bucketArn, bucketArn \o "/*"}
        \cup {bucketArn \o "/" \o k : k \in ObjectKeys}
        \cup {ObjectArn(v, k) : v \in {x \in ClientInputs : validate(x)}, k \in ObjectKeys}

Idle == [kind |-> "none"]

Pending == [done |-> FALSE, effect |-> "", role |-> "", via |-> ""]

(***************************************************************************)
(* The pipeline: sign-up, attribute update, authentication, the operator's *)
(* mapping step, exchange, expiry.                                         *)
(***************************************************************************)
\* The schema entry of `client` does not say whether the attribute is mutable:
\* both settings of the deployed pool are covered.
Init ==
    /\ clientMutable \in BOOLEAN
    /\ users = [u \in UserIds |-> NoUser]
    /\ tokens = [u \in UserIds |-> [present |-> FALSE, client |-> ""]]
    /\ creds = {}
    /\ mapping = {}
    /\ submitted = ""
    /\ lastErr = "none"
    /\ req = Idle
    /\ decision = Pending

SignUp(u, v) ==
    /\ ~users[u].exists
    /\ submitted' = v
    /\ IF validate(v)
       THEN /\ users' = [users EXCEPT ![u] = [exists |-> TRUE, client |-> store(v)]]
            /\ lastErr' = "none"
       ELSE /\ UNCHANGED users
            /\ lastErr' = "ValidationError"
    /\ UNCHANGED <<tokens, creds, mapping, req, decision, clientMutable>>

UpdateAttribute(u, v) ==
    /\ users[u].exists
    /\ submitted' = v
    /\ IF ~clientMutable
       THEN /\ UNCHANGED users
            /\ lastErr' = "InvalidParameterException"
       ELSE IF validate(v)
       THEN /\ users' = [users EXCEPT ![u].client = store(v)]
            /\ lastErr' = "none"
       ELSE /\ UNCHANGED users
            /\ lastErr' = "ValidationError"
    /\ UNCHANGED <<tokens, creds, mapping, req, decision, clientMutable>>

Authenticate(u) ==
    /\ users[u].exists
    /\ tokens' = [tokens EXCEPT ![u] = [present |-> TRUE, client |-> users[u].client]]
    /\ lastErr' = "none"
    /\ UNCHANGED <<users, creds, mapping, submitted, req, decision, clientMutable>>

ApplyMapping ==
    /\ mapping = {}
    /\ mapping' = {<<"client", "custom:client">>}
    /\ UNCHANGED <<users, tokens, creds, submitted, lastErr, req, decision, clientMutable>>

Issue(owner, amr, claims) ==
    LET sel == selectRole([amr |-> amr, roles |-> {}, preferred |-> ""])
        tags == SessionTags(mapping, claims)
    IN  IF /\ sel.ok
           /\ TrustAllows(sel.role, "sts:AssumeRoleWithWebIdentity", WebIdentity(amr))
           /\ (tags # {} => TrustAllows(sel.role, "sts:TagSession", WebIdentity(amr)))
        THEN /\ creds' = creds \cup {[owner |-> owner, role |-> sel.role,
                                      via |-> sel.via, tags |-> tags]}
             /\ lastErr' = "none"
        ELSE /\ UNCHANGED creds
             /\ lastErr' = "InvalidIdentityPoolConfigurationException"

Exchange(u) ==
    /\ tokens[u].present
    /\ Cardinality(creds) < MaxCreds
    /\ Issue(u, "authenticated", {<<"custom:client", tokens[u].client>>})
    /\ UNCHANGED <<users, tokens, mapping, submitted, req, decision, clientMutable>>

ExchangeUnauthenticated ==
    /\ Cardinality(creds) < MaxCreds
    /\ IF allowUnauthenticatedIdentities
       THEN Issue("guest", "unauthenticated", {})
       ELSE /\ UNCHANGED creds
            /\ lastErr' = "NotAuthorizedException"
    /\ UNCHANGED <<users, tokens, mapping, submitted, req, decision, clientMutable>>

Expire(c) ==
    /\ c \in creds
    /\ creds' = creds \ {c}
    /\ UNCHANGED <<users, tokens, mapping, submitted, lastErr, req, decision, clientMutable>>

Next ==
    \/ \E u \in UserIds, v \in ClientInputs : SignUp(u, v)
    \/ \E u \in UserIds, v \in ClientInputs : UpdateAttribute(u, v)
    \/ \E u \in UserIds : Authenticate(u)
    \/ ApplyMapping
    \/ \E u \in UserIds : Exchange(u)
    \/ ExchangeUnauthenticated
    \/ \E c \in creds : Expire(c)

Spec == Init /\ [][Next]_vars

(***************************************************************************)
(* The attribute schema alone: one record, values of every length around   *)
(* the bounds.                                                             *)
(***************************************************************************)
NextSchema ==
    \/ \E v \in LengthInputs : SignUp("u1", v)
    \/ \E v \in LengthInputs : UpdateAttribute("u1", v)

SpecSchema == Init /\ [][NextSchema]_vars

(***************************************************************************)
(* The pure evaluations: an access request against a role's policies, an   *)
(* sts request against a role's trust policy, a role selection.            *)
(***************************************************************************)
TagSets == {{}} \cup {{<<"client", v>>} : v \in {x \in ClientInputs : validate(x)}}

AccessRequests ==
    [kind : {"access"}, role : RoleIds, tags : TagSets,
     action : S3Actions, resource : Resources]

TrustRequests ==
    [kind : {"trust"}, role : RoleIds,
     action : {"sts:AssumeRoleWithWebIdentity", "sts:TagSession", "sts:AssumeRole"},
     aud : {identityPoolRef, "otherIdentityPool"},
     amr : {"authenticated", "unauthenticated"}]

Outcomes ==
    {o \in [amr : {"authenticated", "unauthenticated"},
            roles : SUBSET RoleIds,
            preferred : RoleIds \cup {""}] :
        /\ o.preferred # "" => o.preferred \in o.roles
        /\ Cardinality(o.roles) = 1 => o.preferred # ""}

SelectRequests == [kind : {"select"}, outcome : Outcomes]

InitEval ==
    /\ clientMutable \in BOOLEAN
    /\ users = [u \in UserIds |-> NoUser]
    /\ tokens = [u \in UserIds |-> [present |-> FALSE, client |-> ""]]
    /\ creds = {}
    /\ mapping = {}
    /\ submitted = ""
    /\ lastErr = "none"
    /\ req \in AccessRequests \cup TrustRequests \cup SelectRequests
    /\ decision = Pending

Decided(effect) == [done |-> TRUE, effect |-> effect, role |-> "", via |-> ""]

EvaluateAccess ==
    /\ req.kind = "access"
    /\ ~decision.done
    /\ decision' = Decided(IF RoleAllows(req.role, req.action, req.resource, req.tags)
                           THEN "allow" ELSE "deny")
    /\ UNCHANGED <<users, tokens, creds, mapping, clientMutable, submitted, lastErr, req>>

EvaluateTrust ==
    /\ req.kind = "trust"
    /\ ~decision.done
    /\ decision' = Decided(IF TrustAllows(req.role, req.action,
                                          [aud |-> req.aud, amr |-> {req.amr},
                                           provider |-> "cognito-identity.amazonaws.com"])
                           THEN "allow" ELSE "deny")
    /\ UNCHANGED <<users, tokens, creds, mapping, clientMutable, submitted, lastErr, req>>

SelectRole ==
    /\ req.kind = "select"
    /\ ~decision.done
    /\ LET sel == selectRole(req.outcome) IN
       decision' = [done |-> TRUE, effect |-> IF sel.ok THEN "allow" ELSE "deny",
                    role |-> sel.role, via |-> sel.via]
    /\ UNCHANGED <<users, tokens, creds, mapping, clientMutable, submitted, lastErr, req>>

NextEval == EvaluateAccess \/ EvaluateTrust \/ SelectRole

SpecEval == InitEval /\ [][NextEval]_vars

(***************************************************************************)
(* Properties.                                                             *)
(***************************************************************************)
ValidInputs == {x \in ClientInputs : validate(x)}

ClientTagOf(c) == {t[2] : t \in {e \in c.tags : e[1] = "client"}}

ScopedPattern(b) ==
    Substitute(bucketArn \o "/${aws:PrincipalTag/client}/*",
               PrincipalContext({<<"client", b>>}))

\* C1 (isolation): for identities A and B holding distinct client values a and
\* b, no credential exchanged for A is allowed a GetObject*/PutObject* action
\* on a resource the scoped pattern resolved for b (bucket/b/*) matches.
C1_Isolation ==
    \A c \in creds : \A B \in UserIds :
        ( /\ c.owner \in UserIds
          /\ c.owner # B
          /\ users[c.owner].exists
          /\ users[B].exists
          /\ ClientTagOf(c) = {users[c.owner].client}
          /\ users[c.owner].client # users[B].client )
        => \A r \in Resources : \A a \in DataActions :
               Match(ScopedPattern(users[B].client), r) => ~CredAllows(c, a, r)

\* C2 (round trip): with a credential whose session tag is t, GetObject and
\* PutObject are allowed on every bucket/t/<key>, denied on bucket/t'/<key>
\* for every other value t' and on the bare prefix, and ListBucket is allowed
\* on the bucket.
C2_RoundTrip ==
    \A c \in creds : \A t \in ClientTagOf(c) : \A a \in {"s3:GetObject", "s3:PutObject"} :
        /\ \A k \in ObjectKeys : CredAllows(c, a, ObjectArn(t, k))
        /\ \A v \in ValidInputs \ {t} : \A k \in ObjectKeys :
               ~CredAllows(c, a, ObjectArn(v, k))
        /\ \A k \in ObjectKeys : ~CredAllows(c, a, bucketArn \o "/" \o k)
        /\ ~CredAllows(c, a, bucketArn \o "/*")
        /\ CredAllows(c, "s3:ListBucket", bucketArn)

\* C3 (fail closed): no credential exists that an exchange issued while the
\* mapping of its audience was absent; no untagged credential is ever issued.
C3_FailClosed ==
    \A c \in creds : ClientTagOf(c) # {}

\* C4 (validation): a submitted value of `client` is accepted exactly when
\* 3 <= len <= 60 and rejected with ValidationError otherwise; an accepted
\* value is stored as submitted, never truncated or escaped.
C4_Validation ==
    /\ lastErr = "ValidationError" => (Len(submitted) < 3 \/ Len(submitted) > 60)
    /\ (lastErr = "none" /\ users["u1"].exists) =>
           /\ 3 <= Len(submitted) /\ Len(submitted) <= 60
           /\ users["u1"].client = submitted
    /\ users["u1"].exists =>
           3 <= Len(users["u1"].client) /\ Len(users["u1"].client) <= 60
    /\ (~users["u1"].exists /\ lastErr = "none") => submitted = ""

C4_Witness ==
    /\ users["u1"].exists
    /\ Len(users["u1"].client) = 60
    /\ lastErr = "ValidationError"
    /\ Len(submitted) = 61

\* C5 (trust policy): the trust policies of the two roles are one allow
\* statement each, with the same two actions and the same audience equality
\* condition, and differ only in the authentication-state condition; an sts
\* request is trusted only for that audience and that state.
TrustStatement(id) == Role(id).assumeRolePolicyDocument[1]

AudienceConditions(st) == {c \in st.Condition : c.key = audKey}

C5_TrustPolicy ==
    LET a == TrustStatement("authenticatedRole")
        u == TrustStatement("unauthenticatedRole")
    IN  /\ Len(Role("authenticatedRole").assumeRolePolicyDocument) = 1
        /\ Len(Role("unauthenticatedRole").assumeRolePolicyDocument) = 1
        /\ a.Effect = "Allow" /\ u.Effect = "Allow"
        /\ a.Action = {"sts:AssumeRoleWithWebIdentity", "sts:TagSession"}
        /\ u.Action = a.Action
        /\ AudienceConditions(a) =
               {[op |-> "StringEquals", key |-> audKey, value |-> identityPoolRef]}
        /\ AudienceConditions(u) = AudienceConditions(a)
        /\ a.Condition \ AudienceConditions(a) =
               {[op |-> "ForAnyValue:StringLike", key |-> amrKey, value |-> "authenticated"]}
        /\ u.Condition \ AudienceConditions(u) =
               {[op |-> "ForAnyValue:StringLike", key |-> amrKey, value |-> "unauthenticated"]}
        /\ a.Principal = u.Principal
        /\ (req.kind = "trust" /\ decision.done /\ decision.effect = "allow") =>
               /\ req.aud = identityPoolRef
               /\ req.action \in a.Action
               /\ req.role = req.amr \o "Role"

C5_Witness ==
    /\ req.kind = "trust"
    /\ req.role = "unauthenticatedRole"
    /\ req.action = "sts:TagSession"
    /\ decision.done
    /\ decision.effect = "allow"

\* C6 (no default role), as claimed: a credential is issued only when a role
\* mapping matched; selection never falls back to a default role.
C6_NoDefaultRole ==
    \A c \in creds : c.via # "default"

\* C6, amended: when the token names no role, selection falls back to the
\* configured default authenticated role, and only to that role; no exchange
\* of a user's token is refused for want of a role.
C6_DefaultIsAuthenticated ==
    /\ \A c \in creds :
           c.via = "default" => c.role = "authenticatedRole" /\ c.owner \in UserIds
    /\ lastErr # "InvalidIdentityPoolConfigurationException"

C6_Witness ==
    \E c \in creds : c.via = "default" /\ c.role = "authenticatedRole"

\* C7 (no live revocation): a step never changes the tags policy evaluation
\* sees for a live credential; an attribute update leaves the issued
\* credentials as they are;
\* a new credential carries the value of the token it was exchanged for.
C7_NoLiveRevocation ==
    [][ /\ \A c \in creds \cap creds' : PrincipalTags(c)' = PrincipalTags(c)
        /\ users' # users => creds' = creds
        /\ \A c \in creds' \ creds :
               c.owner \in UserIds => c.tags \subseteq {<<"client", tokens[c.owner].client>>}
      ]_vars

C7_Witness ==
    \E c \in creds :
        /\ c.owner \in UserIds
        /\ ClientTagOf(c) # {}
        /\ users[c.owner].client \notin ClientTagOf(c)
        /\ tokens[c.owner].client = users[c.owner].client
        /\ \E k \in ObjectKeys :
               /\ CredAllows(c, "s3:GetObject", ObjectArn(CHOOSE t \in ClientTagOf(c) : TRUE, k))
               /\ ~CredAllows(c, "s3:GetObject", ObjectArn(users[c.owner].client, k))

\* C8 (substitution point): every statement of the access policy that grants
\* a data action has resources with exactly one substitution point, bound to
\* the tag `client`; a data action is allowed only inside the partition of
\* the session's tag.
GrantsData(st) ==
    st.effect = "Allow" /\ \E p \in st.actions : \E a \in DataActions : Match(p, a)

C8_SubstitutionPoint ==
    /\ \A arn \in Role("authenticatedRole").managedPolicyArns :
           \A i \in DOMAIN ManagedPolicy(arn) :
               GrantsData(ManagedPolicy(arn)[i]) =>
                   \A r \in ManagedPolicy(arn)[i].resources :
                       VariablePoints(r) = <<"aws:PrincipalTag/client">>
    /\ ( /\ req.kind = "access"
         /\ decision.done
         /\ decision.effect = "allow"
         /\ req.action \in DataActions )
       => \E t \in req.tags :
              /\ t[1] = "client"
              /\ HasPrefix(req.resource, bucketArn \o "/" \o t[2] \o "/")

C8_Witness ==
    /\ req.kind = "access"
    /\ req.action = "s3:PutObject"
    /\ decision.done
    /\ decision.effect = "allow"

C10_UnauthenticatedDenied ==
    (req.kind = "access" /\ decision.done) =>
        /\ req.role = "unauthenticatedRole" => decision.effect = "deny"
        /\ decision.effect = "allow" => req.role = "authenticatedRole"

C10_Witness ==
    /\ req.kind = "access"
    /\ decision.done
    /\ req.role = "unauthenticatedRole"
    /\ req.action = "s3:ListBucket"
    /\ req.resource = bucketArn
    /\ decision.effect = "deny"

====
